---- MODULE Spec2Model ----
(***************************************************************************)
(* A model of brickblock's Pipeline (src/brickblock/pipeline/              *)
(* base_pipeline.py): the fluent builder (init, input, output, functions,  *)
(* modules), the compiled units (to_function, to_afunction), the error     *)
(* boundary (build, abuild), the raw runner (arun, arun_modules) and the   *)
(* progress stream (sse_generator), the snapshot (save_to_str,             *)
(* load_from_str), the compiled units a caller holds, and invocations of   *)
(* the suspend-capable paths that are in flight together.                  *)
(*                                                                         *)
(* A Python exception is modelled as the name of its class; an operator    *)
(* that models code which may raise returns a record whose field exc is    *)
(* NoExc when the code returned and the class name when it raised.         *)
(* Faults are the classes deriving from Exception; a BaseException that is *)
(* not an Exception (task cancellation, interpreter exit) is outside the   *)
(* model.                                                                  *)
(***************************************************************************)
EXTENDS Integers, Sequences, FiniteSets, TLC

VARIABLES name, id, sse, input_model, output_model, list_functions, res,
          units, tasks

vars == <<name, id, sse, input_model, output_model, list_functions, res,
          units, tasks>>

defn == <<name, id, sse, input_model, output_model, list_functions>>

-----------------------------------------------------------------------------
(* Bounds of the model.                                                    *)

\* The longest list of steps a definition holds.
MaxSteps == 2

\* The longest list handed to one functions() / modules() call.
MaxBatch == 2

\* The most compiled units a caller holds.
MaxUnits == 2

\* The most invocations in flight together.
MaxTasks == 2

-----------------------------------------------------------------------------
(* Values, mappings and schemas (pydantic models).                         *)

\* Python's None, where a schema (a class) is expected.
None == "None"

NoExc == "none"

\* A field value: an integer, or a string that is not a number.
IntV(n) == [int |-> TRUE, n |-> n]

NotANumber == [int |-> FALSE, n |-> 0]

EmptyMap == [f \in {} |-> IntV(0)]

\* The schemas: A and B have the same shape {x: int} and are distinct
\* classes; C is {x: int, y: int}.
Schemas == {"A", "B", "C"}

Fields(s) == IF s = "C" THEN {"x", "y"} ELSE {"x"}

\* Data flowing through a pipeline: a schema instance, a plain dict, any
\* other Python value, or None.
ModelVal(s, m) == [kind |-> "model", schema |-> s, fields |-> m]

DictVal(m) == [kind |-> "dict", schema |-> None, fields |-> m]

RawVal == [kind |-> "raw", schema |-> None, fields |-> EmptyMap]

NoneVal == [kind |-> "none", schema |-> None, fields |-> EmptyMap]

Returned(v) == [exc |-> NoExc, val |-> v]

Raised(e) == [exc |-> e, val |-> NoneVal]

\* The exception classes of the model and the two `except` tests build uses.
IsTypeError(e) == e = "TypeError"

IsValueError(e) == e \in {"ValueError", "ValidationError"}

\* schema(**mapping): None is not callable; a field that is missing or not
\* an integer fails validation; fields the schema does not declare are
\* dropped.
Construct(s, m) ==
    IF s = None THEN Raised("TypeError")
    ELSE IF /\ Fields(s) \subseteq DOMAIN m
            /\ \A f \in Fields(s) : m[f].int
         THEN Returned(ModelVal(s, [f \in Fields(s) |-> m[f]]))
         ELSE Raised("ValidationError")

\* schema(**input_data): the ** needs a mapping.
ConstructFromInput(s, d) ==
    IF s = None THEN Raised("TypeError")
    ELSE IF d.kind = "dict" THEN Construct(s, d.fields)
    ELSE Raised("TypeError")

\* The conversion arun and sse_generator apply to their input: a dict is
\* constructed, an instance is dumped and parsed, anything else passes.
Coerce(s, d) ==
    IF d.kind = "dict" THEN ConstructFromInput(s, d)
    ELSE IF d.kind = "model"
         THEN (IF s = None THEN Raised("AttributeError")
               ELSE Construct(s, d.fields))
         ELSE Returned(d)

\* isinstance(value, output_model): the second argument must be a class.
IsInstance(v, s) ==
    IF s = None THEN [exc |-> "TypeError", is |-> FALSE]
    ELSE [exc |-> NoExc, is |-> (v.kind = "model" /\ v.schema = s)]

-----------------------------------------------------------------------------
(* The units handed to functions() and modules().                          *)

Unit(k, i, o, f, b) ==
    [kind |-> k, inS |-> i, outS |-> o, op |-> f, beh |-> b]

\* Callables with annotations: each becomes a Function step. addOne and
\* double return an instance of their output schema, asDict returns a plain
\* dict, faulty raises (which fault depends on the value it is given).
addOne == Unit("fn", "A", "A", "addOne", "ok")

double == Unit("fn", "A", "B", "double", "ok")

asDict == Unit("fn", "A", "A", "addOne", "dict")

faulty == Unit("fn", "A", "A", "addOne", "faulty")

FnUnits == {addOne, double, asDict, faulty}

\* Subclasses of BaseModule: run of modOk returns an instance, run of modDict
\* a plain dict; modFaulty raises in its start hook, in run or in its end
\* hook (which one depends on the value it is given). modDict is a class
\* defined inside a function, the others are defined at the top of a module.
modOk == Unit("mod", "A", "B", "addOne", "ok")

modDict == Unit("mod", "A", "A", "double", "dict")

modFaulty == Unit("mod", "A", "A", "addOne", "faulty")

ModUnits == {modOk, modDict, modFaulty}

\* A unit that is neither: a callable without annotations for functions(),
\* a class that is no BaseModule for modules().
badUnit == Unit("bad", None, None, "addOne", "ok")

Apply(f, n) == IF f = "double" THEN n * 2 ELSE n + 1

\* The fault a faulty callable raises on the value n.
FaultOn(n) ==
    IF n % 3 = 1 THEN "TypeError"
    ELSE IF n % 3 = 2 THEN "ValueError"
    ELSE "RuntimeError"

\* The raw inputs of build, abuild, arun and sse_generator: two valid
\* mappings, one whose x is not a number, an instance, and a value that is
\* neither a mapping nor an instance.
Inputs ==
    { DictVal([f \in {"x"} |-> IntV(1)]),
      DictVal([f \in {"x"} |-> IntV(2)]),
      DictVal([f \in {"x"} |-> NotANumber]),
      ModelVal("A", [f \in {"x"} |-> IntV(1)]),
      RawVal }

-----------------------------------------------------------------------------
(* The result of the last call, kept for the properties.                   *)

\* No callable, and no bytes.
NoUnit ==
    [form |-> "none", name |-> "",
     annotations |-> [input_data |-> None, return |-> None]]

NoBlob == << >>

\* op and inp: the call and its input; raised: the exception that reached
\* the caller; value: what arun returned; status, result, message: what
\* build / abuild returned; events: what sse_generator yielded; invoked: the
\* step calls made, in order; origin: where an exception arose; unit: the
\* callable to_function / to_afunction returned, or the one that was called;
\* blob: what save_to_str returned.
Idle ==
    [op |-> "none", inp |-> NoneVal, raised |-> NoExc, value |-> NoneVal,
     status |-> "", result |-> NoneVal, message |-> "",
     invoked |-> << >>, events |-> << >>, origin |-> "none",
     unit |-> NoUnit, blob |-> NoBlob]

-----------------------------------------------------------------------------
(* The builder.                                                            *)

\* An invocation of a suspend-capable path (a coroutine): pc is where it
\* stands (idle, suspended in the await of step k, done); data, k and invoked
\* are the locals of its frame: the data handed to step k, the loop's
\* position and the step calls that returned; out is what it returned or
\* raised; met says that it was suspended while another invocation ran.
NoTask ==
    [pc |-> "idle", op |-> "none", inp |-> NoneVal, k |-> 0, data |-> NoneVal,
     invoked |-> << >>, out |-> Idle, met |-> FALSE]

Init ==
    /\ name = "p"
    /\ id = "uuid4"
    /\ sse \in BOOLEAN
    /\ input_model = None
    /\ output_model = None
    /\ list_functions = << >>
    /\ res = Idle
    /\ units = << >>
    /\ tasks = [t \in 1..MaxTasks |-> NoTask]

\* What a builder call leaves in res: its name, and the exception when it
\* raised.
BuilderRes(o, e) == [Idle EXCEPT !.op = o, !.raised = e]

\* input(input_model): sets the schema, whatever it was.
input(s) == s

InputCall(s) ==
    /\ input_model' = input(s)
    /\ res' = BuilderRes("input", NoExc)
    /\ UNCHANGED <<name, id, sse, output_model, list_functions, units, tasks>>

\* output(output_model): sets the schema, whatever it was.
output(s) == s

OutputCall(s) ==
    /\ output_model' = output(s)
    /\ res' = BuilderRes("output", NoExc)
    /\ UNCHANGED <<name, id, sse, input_model, list_functions, units, tasks>>

\* The units of a batch that are appended before the loop raises: all of
\* them, or those before the first unit the loop rejects.
FirstBad(batch, accepted) ==
    IF \E i \in 1..Len(batch) : batch[i].kind \notin accepted
    THEN CHOOSE i \in 1..Len(batch) :
            /\ batch[i].kind \notin accepted
            /\ \A j \in 1..(i - 1) : batch[j].kind \in accepted
    ELSE Len(batch) + 1

Appended(batch, accepted) == SubSeq(batch, 1, FirstBad(batch, accepted) - 1)

\* The inference both functions() and modules() end with: a schema that is
\* still None is taken from the first (input) or the last (output) step.
InferInput(cur, steps) ==
    IF cur = None /\ steps # << >> THEN steps[1].inS ELSE cur

\* InferOutput that follows the last step at every call.
InferOutputLast(cur, steps) ==
    IF steps # << >> THEN steps[Len(steps)].outS ELSE cur

InferOutput(cur, steps) ==
    IF cur = None /\ steps # << >> THEN steps[Len(steps)].outS ELSE cur

\* functions() reads the schemas of a step from its input_model and
\* output_model, modules() from the annotations of its run: a step of the
\* other variant has neither, and the read raises AttributeError. The
\* input is inferred first, so it stays inferred when the output raises.
Infer(variant, steps) ==
    LET readsFirst == input_model = None /\ steps # << >>
        readsLast == output_model = None /\ steps # << >>
    IN  IF readsFirst /\ steps[1].kind # variant
        THEN [exc |-> "AttributeError", steps |-> steps,
              inS |-> input_model, outS |-> output_model]
        ELSE IF readsLast /\ steps[Len(steps)].kind # variant
        THEN [exc |-> "AttributeError", steps |-> steps,
              inS |-> InferInput(input_model, steps), outS |-> output_model]
        ELSE [exc |-> NoExc, steps |-> steps,
              inS |-> InferInput(input_model, steps),
              outS |-> InferOutput(output_model, steps)]

\* functions(functions): wraps and appends each unit, then infers. A unit
\* Function.as_Function cannot wrap raises in the loop, after the units
\* before it were appended and before the inference.
functions(batch) ==
    LET steps == list_functions \o Appended(batch, {"fn"})
    IN  IF FirstBad(batch, {"fn"}) <= Len(batch)
        THEN [exc |-> "SchemaInferenceError", steps |-> steps,
              inS |-> input_model, outS |-> output_model]
        ELSE Infer("fn", steps)

\* modules(functions): appends each BaseModule subclass, then infers. A unit
\* that is no subclass raises in the loop.
modules(batch) ==
    LET steps == list_functions \o Appended(batch, {"mod"})
    IN  IF FirstBad(batch, {"mod"}) <= Len(batch)
        THEN [exc |-> "Exception", steps |-> steps,
              inS |-> input_model, outS |-> output_model]
        ELSE Infer("mod", steps)

Batches(S) == UNION {[1..n -> S] : n \in 0..MaxBatch}

FunctionsCall(batch) ==
    /\ Len(list_functions) + Len(batch) <= MaxSteps
    /\ LET r == functions(batch)
       IN  /\ list_functions' = r.steps
           /\ input_model' = r.inS
           /\ output_model' = r.outS
           /\ res' = BuilderRes("functions", r.exc)
    /\ UNCHANGED <<name, id, sse, units, tasks>>

ModulesCall(batch) ==
    /\ Len(list_functions) + Len(batch) <= MaxSteps
    /\ LET r == modules(batch)
       IN  /\ list_functions' = r.steps
           /\ input_model' = r.inS
           /\ output_model' = r.outS
           /\ res' = BuilderRes("modules", r.exc)
    /\ UNCHANGED <<name, id, sse, units, tasks>>

-----------------------------------------------------------------------------
(* Steps.                                                                  *)

\* What a unit computes from its input: x is replaced by op(x), the other
\* fields of the output schema are kept, or 0 when the input has none.
StepFields(step, d, fs) ==
    [f \in fs |-> IF f = "x" THEN IntV(Apply(step.op, d.fields["x"].n))
                  ELSE IF f \in DOMAIN d.fields THEN d.fields[f] ELSE IntV(0)]

Computes(d) ==
    /\ d.kind \in {"model", "dict"}
    /\ "x" \in DOMAIN d.fields
    /\ d.fields["x"].int

\* The body of a unit: it raises its fault, or returns an instance of its
\* output schema, or a plain dict; a value it cannot read is a TypeError.
Body(step, d) ==
    IF ~Computes(d) THEN Raised("TypeError")
    ELSE IF step.beh = "faulty" THEN Raised(FaultOn(d.fields["x"].n))
    ELSE IF step.beh = "dict" THEN Returned(DictVal(StepFields(step, d, {"x"})))
    ELSE Returned(ModelVal(step.outS, StepFields(step, d, Fields(step.outS))))

\* func.to_function()(data): the blocking form of a Function step. A
\* BaseModule class has no to_function.
CallBlocking(step, d) ==
    IF step.kind = "fn" THEN Body(step, d) ELSE Raised("AttributeError")

\* CallAsync without the await: the loop goes on with the coroutine object.
CallAsyncUnawaited(step, d) ==
    IF step.kind = "fn" THEN Returned(RawVal) ELSE Raised("AttributeError")

\* await func.to_afunction()(data): the suspend-capable form.
CallAsync(step, d) ==
    IF step.kind = "fn" THEN Body(step, d) ELSE Raised("AttributeError")

-----------------------------------------------------------------------------
(* The compiled units.                                                     *)

\* One step call: the step's place in list_functions, the data it was
\* given, and the exception it raised or the value it returned.
Call(k, d, r) == [step |-> k, arg |-> d, exc |-> r.exc, ret |-> r.val]

\* What a run did: the exception that left it and where it arose, or the
\* value it returned; and the step calls it made.
Ran(e, org, v, tr) == [exc |-> e, origin |-> org, val |-> v, invoked |-> tr]

\* Recoerce without the reconstruction: the unit returns what the last step
\* returned.
RecoerceSkipped(d) == Returned(d)

\* The tail of both units: a schema instance is dumped and reconstructed as
\* output_model, anything else is returned as it is.
Recoerce(d) ==
    IF d.kind = "model" THEN Construct(output_model, d.fields) ELSE Returned(d)

Finish(d, tr) ==
    LET r == Recoerce(d)
    IN  IF r.exc # NoExc THEN Ran(r.exc, "output", NoneVal, tr)
        ELSE Ran(NoExc, "none", r.val, tr)

\* PipelineLoop that hands every step the input of the unit.
RECURSIVE PipelineLoopUnthreaded(_, _, _)
PipelineLoopUnthreaded(k, d, tr) ==
    IF k > Len(list_functions) THEN Finish(d, tr)
    ELSE LET r == CallBlocking(list_functions[k], d)
             t == Append(tr, Call(k, d, r))
         IN  IF r.exc # NoExc THEN Ran(r.exc, "step", NoneVal, t)
             ELSE PipelineLoopUnthreaded(k + 1, d, t)

\* _pipeline_function, from step k on with the data so far: the for loop
\* over list_functions and the return.
RECURSIVE PipelineLoop(_, _, _)
PipelineLoop(k, d, tr) ==
    IF k > Len(list_functions) THEN Finish(d, tr)
    ELSE LET r == CallBlocking(list_functions[k], d)
             t == Append(tr, Call(k, d, r))
         IN  IF r.exc # NoExc THEN Ran(r.exc, "step", NoneVal, t)
             ELSE PipelineLoop(k + 1, r.val, t)

\* to_function()(input_instance)
to_function(d) == PipelineLoop(1, d, << >>)

\* AsyncPipelineLoop that goes on to the next step, with the data it had,
\* when a step raises, and raises the first exception at its end.
RECURSIVE AsyncPipelineLoopContinuing(_, _, _, _)
AsyncPipelineLoopContinuing(k, d, tr, e) ==
    IF k > Len(list_functions)
    THEN (IF e # NoExc THEN Ran(e, "step", NoneVal, tr) ELSE Finish(d, tr))
    ELSE LET r == CallAsync(list_functions[k], d)
             t == Append(tr, Call(k, d, r))
         IN  IF r.exc # NoExc
             THEN AsyncPipelineLoopContinuing(k + 1, d, t, IF e = NoExc THEN r.exc ELSE e)
             ELSE AsyncPipelineLoopContinuing(k + 1, r.val, t, e)

AsyncPipelineLoopNoFailFast(k, d, tr) == AsyncPipelineLoopContinuing(k, d, tr, NoExc)

\* _async_pipeline_function, from step k on.
RECURSIVE AsyncPipelineLoop(_, _, _)
AsyncPipelineLoop(k, d, tr) ==
    IF k > Len(list_functions) THEN Finish(d, tr)
    ELSE LET r == CallAsync(list_functions[k], d)
             t == Append(tr, Call(k, d, r))
         IN  IF r.exc # NoExc THEN Ran(r.exc, "step", NoneVal, t)
             ELSE AsyncPipelineLoop(k + 1, r.val, t)

\* await to_afunction()(input_instance)
to_afunction(d) == AsyncPipelineLoop(1, d, << >>)

-----------------------------------------------------------------------------
(* build and abuild.                                                       *)

Failed(o, inp, msg, org, tr) ==
    [Idle EXCEPT !.op = o, !.inp = inp, !.status = "failed",
                 !.message = msg, !.origin = org, !.invoked = tr]

Success(o, inp, v, tr) ==
    [Idle EXCEPT !.op = o, !.inp = inp, !.status = "success",
                 !.result = DictVal(v.fields),
                 !.message = "Pipeline built successfully.", !.invoked = tr]

\* Envelope without its `except Exception` clause around the unit: a fault
\* that is neither a TypeError nor a ValueError reaches the caller.
EnvelopeNoCatchAll(o, inp, c, r) ==
    IF c.exc # NoExc
    THEN Failed(o, inp, "Input data validation error", "input", << >>)
    ELSE IF IsTypeError(r.exc)
    THEN Failed(o, inp, "Type error during pipeline execution", r.origin, r.invoked)
    ELSE IF IsValueError(r.exc)
    THEN Failed(o, inp, "Value error during pipeline execution", r.origin, r.invoked)
    ELSE IF r.exc # NoExc
    THEN [Idle EXCEPT !.op = o, !.inp = inp, !.raised = r.exc,
                      !.origin = r.origin, !.invoked = r.invoked]
    ELSE LET t == IsInstance(r.val, output_model)
         IN  IF t.exc # NoExc
             THEN Failed(o, inp, "Error validating output model", "check", r.invoked)
             ELSE IF t.is THEN Success(o, inp, r.val, r.invoked)
             ELSE Failed(o, inp, "Output schema mismatch", "none", r.invoked)

\* Envelope without its `except ValueError` clause: a ValueError falls to
\* the `except Exception` clause.
EnvelopeNoValueClause(o, inp, c, r) ==
    IF c.exc # NoExc
    THEN Failed(o, inp, "Input data validation error", "input", << >>)
    ELSE IF IsTypeError(r.exc)
    THEN Failed(o, inp, "Type error during pipeline execution", r.origin, r.invoked)
    ELSE IF r.exc # NoExc
    THEN Failed(o, inp, "Unexpected error during pipeline execution", r.origin, r.invoked)
    ELSE LET t == IsInstance(r.val, output_model)
         IN  IF t.exc # NoExc
             THEN Failed(o, inp, "Error validating output model", "check", r.invoked)
             ELSE IF t.is THEN Success(o, inp, r.val, r.invoked)
             ELSE Failed(o, inp, "Output schema mismatch", "none", r.invoked)

\* The try blocks of build / abuild, given the construction of the input
\* and what the compiled unit did with it. The outermost try has nothing
\* left to catch: every statement of its body is inside one of the three.
Envelope(o, inp, c, r) ==
    IF c.exc # NoExc
    THEN Failed(o, inp, "Input data validation error", "input", << >>)
    ELSE IF IsTypeError(r.exc)
    THEN Failed(o, inp, "Type error during pipeline execution", r.origin, r.invoked)
    ELSE IF IsValueError(r.exc)
    THEN Failed(o, inp, "Value error during pipeline execution", r.origin, r.invoked)
    ELSE IF r.exc # NoExc
    THEN Failed(o, inp, "Unexpected error during pipeline execution", r.origin, r.invoked)
    ELSE LET t == IsInstance(r.val, output_model)
         IN  IF t.exc # NoExc
             THEN Failed(o, inp, "Error validating output model", "check", r.invoked)
             ELSE IF t.is THEN Success(o, inp, r.val, r.invoked)
             ELSE Failed(o, inp, "Output schema mismatch", "none", r.invoked)

\* build that hands the raw input to the unit, whether or not it constructs.
BuildUnvalidated(inp) == Envelope("build", inp, Returned(inp), to_function(inp))

build(inp) ==
    LET c == ConstructFromInput(input_model, inp)
    IN  Envelope("build", inp, c, to_function(c.val))

abuild(inp) ==
    LET c == ConstructFromInput(input_model, inp)
    IN  Envelope("abuild", inp, c, to_afunction(c.val))

BuildCall(inp) ==
    /\ res' = build(inp)
    /\ UNCHANGED <<defn, units, tasks>>

AbuildCall(inp) ==
    /\ res' = abuild(inp)
    /\ UNCHANGED <<defn, units, tasks>>

-----------------------------------------------------------------------------
(* arun, arun_modules and sse_generator.                                   *)

\* The three calls sse_generator makes on a module. modFaulty raises in
\* the start hook on a value that is 1 modulo 3, in run on one that is 2,
\* and in the end hook (on the value run returned) on one that is 1.
HookFaults(step, d) == step.beh = "faulty" /\ Computes(d) /\ d.fields["x"].n % 3 = 1

OnStart(step, d) == IF HookFaults(step, d) THEN "RuntimeError" ELSE NoExc

OnEnd(step, d) == IF HookFaults(step, d) THEN "RuntimeError" ELSE NoExc

ModuleBody(step, d) ==
    IF ~Computes(d) THEN Raised("TypeError")
    ELSE IF step.beh = "faulty" /\ d.fields["x"].n % 3 = 2 THEN Raised("ValueError")
    ELSE IF step.beh = "dict" THEN Returned(DictVal(StepFields(step, d, {"x"})))
    ELSE Returned(ModelVal(step.outS, StepFields(step, d, Fields(step.outS))))

\* RunModule without the reconstruction: a dict goes on as a dict.
RunModuleAsReturned(step, d) == ModuleBody(step, d)

\* await __module.run(data), and the reconstruction of a dict it returns as
\* the return annotation of run.
RunModule(step, d) ==
    LET r == ModuleBody(step, d)
    IN  IF r.exc = NoExc /\ r.val.kind = "dict"
        THEN Construct(step.outS, r.val.fields)
        ELSE r

\* The for loop of arun_modules from step k on. issubclass(mod, BaseModule)
\* raises TypeError for a Function step, which is an object and no class.
RECURSIVE ModulesLoop(_, _, _)
ModulesLoop(k, d, tr) ==
    IF k > Len(list_functions) THEN Ran(NoExc, "none", d, tr)
    ELSE IF list_functions[k].kind # "mod"
    THEN Ran("TypeError", "issubclass", NoneVal, tr)
    ELSE LET r == RunModule(list_functions[k], d)
             t == Append(tr, Call(k, d, r))
         IN  IF r.exc # NoExc THEN Ran(r.exc, "step", NoneVal, t)
             ELSE ModulesLoop(k + 1, r.val, t)

arun_modules(inp) ==
    LET c == Coerce(input_model, inp)
    IN  IF c.exc # NoExc THEN Ran(c.exc, "input", NoneVal, << >>)
        ELSE ModulesLoop(1, c.val, << >>)

\* Outcome of an arun that catches: the exception becomes a failed result.
OutcomeCaught(inp, r) ==
    IF r.exc # NoExc
    THEN [Idle EXCEPT !.op = "arun", !.inp = inp, !.status = "failed",
                      !.origin = r.origin, !.invoked = r.invoked]
    ELSE [Idle EXCEPT !.op = "arun", !.inp = inp, !.value = r.val,
                      !.invoked = r.invoked]

\* What arun leaves: the exception when one left it, else the value.
Outcome(inp, r) ==
    [Idle EXCEPT !.op = "arun", !.inp = inp, !.raised = r.exc,
                 !.origin = r.origin, !.value = r.val, !.invoked = r.invoked]

\* arun that runs the compiled unit whatever the mode.
ArunThroughUnit(inp) ==
    LET c == Coerce(input_model, inp)
    IN  IF c.exc # NoExc
        THEN Outcome(inp, Ran(c.exc, "input", NoneVal, << >>))
        ELSE Outcome(inp, to_afunction(c.val))

\* arun: nothing is caught.
arun(inp) ==
    IF sse THEN Outcome(inp, arun_modules(inp))
    ELSE LET c == Coerce(input_model, inp)
         IN  IF c.exc # NoExc
             THEN Outcome(inp, Ran(c.exc, "input", NoneVal, << >>))
             ELSE Outcome(inp, to_afunction(c.val))

ArunCall(inp) ==
    /\ res' = arun(inp)
    /\ UNCHANGED <<defn, units, tasks>>

\* data.json() if isinstance(data, BaseModel) else str(data): the payload
\* of an event is text, and no longer says which schema the data had.
Serialize(d) ==
    IF d.kind = "model" THEN [kind |-> "json", schema |-> None, fields |-> d.fields]
    ELSE [kind |-> "str", schema |-> None, fields |-> d.fields]

Event(st, msg, payload) == [status |-> st, message |-> msg, data |-> payload]

Streamed(e, org, evs, tr) ==
    [exc |-> e, origin |-> org, events |-> evs, invoked |-> tr]

\* The for loop of sse_generator from step k on. An exception leaves the
\* generator: the events yielded so far are all the consumer gets.
RECURSIVE SseLoop(_, _, _, _)
SseLoop(k, d, evs, tr) ==
    IF k > Len(list_functions) THEN Streamed(NoExc, "none", evs, tr)
    ELSE IF list_functions[k].kind # "mod"
    THEN Streamed("TypeError", "issubclass", evs, tr)
    ELSE LET mod == list_functions[k]
             e1 == Append(evs, Event("onProgressStartMessage", "start", Serialize(d)))
             r == RunModule(mod, d)
             t == Append(tr, Call(k, d, r))
             e2 == Append(e1, Event("onFunctionCompleted", "", Serialize(r.val)))
             e3 == Append(e2, Event("onProgressEndMessage", "end", Serialize(r.val)))
         IN  IF OnStart(mod, d) # NoExc
             THEN Streamed(OnStart(mod, d), "hook", evs, tr)
             ELSE IF r.exc # NoExc THEN Streamed(r.exc, "step", e1, t)
             ELSE IF OnEnd(mod, r.val) # NoExc
             THEN Streamed(OnEnd(mod, r.val), "hook", e2, t)
             ELSE SseLoop(k + 1, r.val, e3, t)

NotActivated == Event("Exception", "SSE is not activated in the pipeline", NoneVal)

End == Event("End", "", NoneVal)

\* sse_generator without its last yield.
SseGeneratorNoEnd(inp) ==
    LET first == IF ~sse THEN <<NotActivated>> ELSE << >>
        c == Coerce(input_model, inp)
    IN  IF c.exc # NoExc THEN Streamed(c.exc, "input", first, << >>)
        ELSE SseLoop(1, c.val, first, << >>)

\* sse_generator: the event of a definition that is not module-style, the
\* conversion of the input, the loop, and the End event.
sse_generator(inp) ==
    LET first == IF ~sse THEN <<NotActivated>> ELSE << >>
        c == Coerce(input_model, inp)
        r == SseLoop(1, c.val, first, << >>)
    IN  IF c.exc # NoExc THEN Streamed(c.exc, "input", first, << >>)
        ELSE IF r.exc # NoExc THEN r
        ELSE [r EXCEPT !.events = Append(@, End)]

\* StreamCall with a loop that pops the steps it has run off the list.
StreamCallDraining(inp) ==
    /\ LET r == sse_generator(inp)
       IN  /\ res' = [Idle EXCEPT !.op = "stream", !.inp = inp, !.raised = r.exc,
                                  !.origin = r.origin, !.events = r.events,
                                  !.invoked = r.invoked]
           /\ list_functions' =
                  SubSeq(list_functions, Len(r.invoked) + 1, Len(list_functions))
    /\ UNCHANGED <<name, id, sse, input_model, output_model, units, tasks>>

StreamCall(inp) ==
    /\ LET r == sse_generator(inp)
       IN  res' = [Idle EXCEPT !.op = "stream", !.inp = inp, !.raised = r.exc,
                               !.origin = r.origin, !.events = r.events,
                               !.invoked = r.invoked]
    /\ UNCHANGED <<defn, units, tasks>>

-----------------------------------------------------------------------------
(* The compiled units a caller holds, and their invocation.                *)

\* The callable to_function / to_afunction returns: the form of its body,
\* its name, and the annotations of the inner function, evaluated when it is
\* defined. Its closure holds self, neither the steps nor the schemas.
Compiled(form) ==
    [form |-> form, name |-> name,
     annotations |-> [input_data |-> input_model, return |-> output_model]]

\* The units the caller holds after a compilation: it keeps the callable
\* returned, or drops it.
Keep(keep, u) ==
    IF keep /\ Len(units) < MaxUnits THEN Append(units, u) ELSE units

ToFunctionCall(keep) ==
    /\ res' = [Idle EXCEPT !.op = "to_function", !.unit = Compiled("blocking")]
    /\ units' = Keep(keep, Compiled("blocking"))
    /\ UNCHANGED <<defn, tasks>>

ToAfunctionCall(keep) ==
    /\ res' = [Idle EXCEPT !.op = "to_afunction", !.unit = Compiled("async")]
    /\ units' = Keep(keep, Compiled("async"))
    /\ UNCHANGED <<defn, tasks>>

\* InvokeUnit whose return is built as the schema the unit was annotated
\* with when it was compiled.
InvokeUnitAsAnnotated(u, d) ==
    LET r == IF u.form = "blocking" THEN to_function(d) ELSE to_afunction(d)
        c == Construct(u.annotations.return, r.val.fields)
    IN  IF r.exc # NoExc \/ r.val.kind # "model" THEN r
        ELSE IF c.exc # NoExc THEN Ran(c.exc, "output", NoneVal, r.invoked)
        ELSE Ran(NoExc, "none", c.val, r.invoked)

\* The body of a compiled unit, run on d: it reads the steps and the output
\* schema through the self of its closure.
InvokeUnit(u, d) ==
    IF u.form = "blocking" THEN to_function(d) ELSE to_afunction(d)

Called(u, d, r) ==
    [Idle EXCEPT !.op = "call", !.inp = d, !.unit = u, !.raised = r.exc,
                 !.origin = r.origin, !.value = r.val, !.invoked = r.invoked]

\* InvokeCall with a loop that consumes the steps it runs.
InvokeCallConsuming(j, d) ==
    /\ j \in DOMAIN units
    /\ res' = Called(units[j], d, InvokeUnit(units[j], d))
    /\ list_functions' = << >>
    /\ UNCHANGED <<name, id, sse, input_model, output_model, units, tasks>>

\* A call of the j-th unit held, nothing caught.
InvokeCall(j, d) ==
    /\ j \in DOMAIN units
    /\ res' = Called(units[j], d, InvokeUnit(units[j], d))
    /\ UNCHANGED <<defn, units, tasks>>

-----------------------------------------------------------------------------
(* The snapshot: pickle.dumps(self) and pickle.loads(data).                *)

\* The name under which pickle writes a class or a function: pickle stores
\* neither, it stores the module and qualified name and looks them up again
\* on load. An object defined inside a function has no name to look up.
UnitName(u) ==
    CASE u = addOne -> "addOne"
      [] u = double -> "double"
      [] u = asDict -> "asDict"
      [] u = faulty -> "faulty"
      [] u = modOk -> "modOk"
      [] u = modDict -> "make.<locals>.modDict"
      [] u = modFaulty -> "modFaulty"
      [] OTHER -> "builtins.object"

AllUnits == FnUnits \cup ModUnits

Importable(n) == n \in {"addOne", "double", "asDict", "faulty", "modOk", "modFaulty"}

\* A schema is a class: written as its name; None is written as itself.
PickleSchema(s) == [ref |-> s]

UnpickleSchema(p) ==
    IF p.ref = None THEN None ELSE CHOOSE s \in Schemas : s = p.ref

\* A module step is a class, written as its name. A function step is a
\* Function object, written as its fields: the two schemas and the callable
\* it wraps, each by name.
PickleStep(u) ==
    IF u.kind = "mod" THEN [ref |-> UnitName(u)]
    ELSE [ref |-> UnitName(u), input_model |-> PickleSchema(u.inS),
          output_model |-> PickleSchema(u.outS)]

UnpickleStep(p) == CHOOSE u \in AllUnits : UnitName(u) = p.ref

\* pickle.dumps(self): every attribute of the instance, or the error pickle
\* raises on the first name it cannot look up (PicklingError or
\* AttributeError, by the version of Python; the model calls it
\* PicklingError).
save_to_str ==
    IF \E k \in DOMAIN list_functions : ~Importable(UnitName(list_functions[k]))
    THEN [exc |-> "PicklingError", blob |-> NoBlob]
    ELSE [exc |-> NoExc,
          blob |-> << [name |-> name, id |-> id, sse |-> sse,
                       input_model |-> PickleSchema(input_model),
                       output_model |-> PickleSchema(output_model),
                       list_functions |->
                           [k \in DOMAIN list_functions |->
                                PickleStep(list_functions[k])]] >>]

SaveCall ==
    /\ LET r == save_to_str
       IN  res' = [Idle EXCEPT !.op = "save_to_str", !.raised = r.exc,
                               !.blob = r.blob]
    /\ UNCHANGED <<defn, units, tasks>>

\* Bytes pickle.loads cannot read: the empty string.
Corrupt == << >>

\* pickle.loads(data): a new Pipeline with the attributes written.
load_from_str(data) ==
    IF data = Corrupt THEN [exc |-> "EOFError", pipeline |-> << >>]
    ELSE [exc |-> NoExc,
          pipeline |->
              << [name |-> data[1].name, id |-> data[1].id, sse |-> data[1].sse,
                  input_model |-> UnpickleSchema(data[1].input_model),
                  output_model |-> UnpickleSchema(data[1].output_model),
                  list_functions |->
                      [k \in DOMAIN data[1].list_functions |->
                           UnpickleStep(data[1].list_functions[k])]] >>]

\* The caller restores the snapshot it has just taken (or a corrupt one) and
\* goes on with the pipeline restored.
LoadCall(data) ==
    /\ res.op = "save_to_str"
    /\ res.raised = NoExc
    /\ LET r == load_from_str(data)
       IN  /\ res' = [Idle EXCEPT !.op = "load_from_str", !.raised = r.exc]
           /\ IF r.exc # NoExc THEN UNCHANGED defn
              ELSE /\ name' = r.pipeline[1].name
                   /\ id' = r.pipeline[1].id
                   /\ sse' = r.pipeline[1].sse
                   /\ input_model' = r.pipeline[1].input_model
                   /\ output_model' = r.pipeline[1].output_model
                   /\ list_functions' = r.pipeline[1].list_functions
    /\ UNCHANGED <<units, tasks>>

-----------------------------------------------------------------------------
(* Invocations of abuild and arun in flight together. A coroutine runs     *)
(* until it awaits a step, and goes on when the step returns: the awaits   *)
(* of the steps are where invocations interleave.                          *)

\* The loop this invocation runs: arun of a module-style definition runs
\* arun_modules, every other invocation the suspend-capable compiled unit.
ModulePath(op) == sse /\ op = "arun"

\* What the invocation returns to its caller, given what its loop did.
TaskOut(op, inp, r) ==
    IF op = "abuild" THEN Envelope("abuild", inp, Returned(inp), r)
    ELSE Outcome(inp, r)

\* The loop arrives at step k with data d: it is over and the invocation
\* returns, or it calls the step and is suspended in the await.
Enter(task, k, d, tr) ==
    IF k > Len(list_functions)
    THEN [task EXCEPT !.pc = "done", !.k = k, !.data = d, !.invoked = tr,
                      !.out = TaskOut(task.op, task.inp,
                                      IF ModulePath(task.op)
                                      THEN Ran(NoExc, "none", d, tr)
                                      ELSE Finish(d, tr))]
    ELSE IF ModulePath(task.op) /\ list_functions[k].kind # "mod"
    THEN [task EXCEPT !.pc = "done", !.k = k, !.data = d, !.invoked = tr,
                      !.out = TaskOut(task.op, task.inp,
                                      Ran("TypeError", "issubclass", NoneVal, tr))]
    ELSE [task EXCEPT !.pc = "await", !.k = k, !.data = d, !.invoked = tr]

\* The start of an invocation, up to its first await: the input is
\* constructed (abuild) or converted (arun), and the loop begins.
Started(t, op, inp) ==
    LET c == IF op = "abuild" THEN ConstructFromInput(input_model, inp)
             ELSE Coerce(input_model, inp)
        task == [NoTask EXCEPT !.op = op, !.inp = inp,
                               !.met = \E u \in DOMAIN tasks : tasks[u].pc = "await"]
    IN  IF c.exc # NoExc
        THEN [task EXCEPT !.pc = "done",
                          !.out = IF op = "abuild"
                                  THEN Envelope("abuild", inp, c, Idle)
                                  ELSE Outcome(inp, Ran(c.exc, "input", NoneVal, << >>))]
        ELSE Enter(task, 1, c.val, << >>)

Begin(t, op, inp) ==
    /\ tasks[t].pc = "idle"
    /\ tasks' = [u \in DOMAIN tasks |->
                    IF u = t THEN Started(t, op, inp)
                    ELSE IF tasks[u].pc = "await" THEN [tasks[u] EXCEPT !.met = TRUE]
                    ELSE tasks[u]]
    /\ UNCHANGED <<defn, res, units>>

\* Frame whose data is one slot shared by all invocations, as if the loop
\* kept it in an attribute of self.
SharedFrame(t) == [tasks[t] EXCEPT !.data = tasks[1].data]

\* The frame of invocation t: the locals of its coroutine.
Frame(t) == tasks[t]

\* The step invocation t awaits returns: the loop takes its value as the
\* new data and goes on to the next step, or the exception leaves the loop.
Resumed(t) ==
    LET f == Frame(t)
        step == list_functions[f.k]
        r == IF ModulePath(f.op) THEN RunModule(step, f.data)
             ELSE CallAsync(step, f.data)
        tr == Append(f.invoked, Call(f.k, f.data, r))
    IN  IF r.exc # NoExc
        THEN [f EXCEPT !.pc = "done", !.invoked = tr,
                       !.out = TaskOut(f.op, f.inp, Ran(r.exc, "step", NoneVal, tr))]
        ELSE Enter(f, f.k + 1, r.val, tr)

Resume(t) ==
    /\ tasks[t].pc = "await"
    /\ tasks' = [tasks EXCEPT ![t] = Resumed(t)]
    /\ UNCHANGED <<defn, res, units>>

-----------------------------------------------------------------------------
(* The specifications.                                                     *)

ExplicitSchemas == Schemas

\* The batches the model hands to functions() and modules(). The steps of
\* the other variant all behave alike where they are used, so one unit of
\* that variant stands for them.
FunctionBatches == Batches((IF sse THEN {addOne} ELSE FnUnits) \cup {badUnit})

ModuleBatches == Batches((IF sse THEN ModUnits ELSE {modOk}) \cup {badUnit})

Execute ==
    \/ \E i \in Inputs : BuildCall(i)
    \/ \E i \in Inputs : AbuildCall(i)
    \/ \E i \in Inputs : ArunCall(i)
    \/ \E i \in Inputs : StreamCall(i)

\* Compilation and snapshot; the callables compiled are not kept.
Derive ==
    \/ ToFunctionCall(FALSE)
    \/ ToAfunctionCall(FALSE)
    \/ SaveCall
    \/ \E data \in {res.blob, Corrupt} : LoadCall(data)

Next ==
    \/ \E s \in ExplicitSchemas : InputCall(s)
    \/ \E s \in ExplicitSchemas : OutputCall(s)
    \/ \E b \in FunctionBatches : FunctionsCall(b)
    \/ \E b \in ModuleBatches : ModulesCall(b)
    \/ Execute
    \/ Derive

Spec == Init /\ [][Next]_vars

\* The definitions built by functions() and modules() calls alone, each
\* returning normally: the schemas are never set explicitly.
InferredNext ==
    \/ \E b \in Batches(IF sse THEN {addOne} ELSE FnUnits) : FunctionsCall(b)
    \/ \E b \in Batches(IF sse THEN ModUnits ELSE {modOk}) : ModulesCall(b)
    \/ Execute

SpecInferred == Init /\ [][InferredNext]_vars

\* Invocations in flight together on one definition: the definition is
\* built first, and no builder call is made once an invocation has begun.
Quiescent == \A t \in DOMAIN tasks : tasks[t].pc = "idle"

TaskInputs ==
    { DictVal([f \in {"x"} |-> IntV(1)]),
      DictVal([f \in {"x"} |-> IntV(2)]),
      DictVal([f \in {"x"} |-> NotANumber]) }

ConcurrentNext ==
    \/ /\ Quiescent
       /\ ~sse
       /\ \E b \in Batches({addOne, faulty}) : FunctionsCall(b)
    \/ /\ Quiescent
       /\ sse
       /\ \E b \in Batches({modOk, modFaulty}) : ModulesCall(b)
    \/ \E t \in DOMAIN tasks, op \in {"abuild", "arun"}, inp \in TaskInputs :
          Begin(t, op, inp)
    \/ \E t \in DOMAIN tasks : Resume(t)

SpecConcurrent == Init /\ [][ConcurrentNext]_vars

\* A caller of a plain-step definition that compiles, keeps the callables,
\* calls them, and goes on building in between.
InitPlain == Init /\ ~sse

UnitInputs ==
    { ModelVal("A", [f \in {"x"} |-> IntV(1)]),
      ModelVal("A", [f \in {"x"} |-> IntV(2)]),
      RawVal }

CompiledNext ==
    \/ \E s \in {"A", "B"} : OutputCall(s)
    \/ \E b \in Batches({addOne, double}) : FunctionsCall(b)
    \/ \E keep \in BOOLEAN : ToFunctionCall(keep)
    \/ \E keep \in BOOLEAN : ToAfunctionCall(keep)
    \/ \E j \in DOMAIN units, d \in UnitInputs : InvokeCall(j, d)

SpecCompiled == InitPlain /\ [][CompiledNext]_vars

-----------------------------------------------------------------------------
(* Properties.                                                             *)

Built == res.op \in {"build", "abuild"}

\* The construction of the input instance the last build / abuild began with.
BuiltInput == ConstructFromInput(input_model, res.inp)

\* The value the last step returned: the last call's, or the input instance
\* when the definition holds no step.
FinalValue ==
    IF res.invoked = << >> THEN BuiltInput.val
    ELSE res.invoked[Len(res.invoked)].ret

\* Every step was called and returned.
EveryStepSucceeded ==
    /\ Len(res.invoked) = Len(list_functions)
    /\ \A i \in DOMAIN res.invoked : res.invoked[i].exc = NoExc

\* C1: build and abuild are error boundaries: whatever the definition and
\* the input, and wherever a failure arises (constructing the input, in a
\* step, reconstructing or checking the output), no exception reaches the
\* caller and the status returned is success or failed.
C1_ErrorBoundary ==
    Built => /\ res.raised = NoExc
             /\ res.status \in {"success", "failed"}

\* A build that caught a fault other than a TypeError or a ValueError raised
\* by a step.
C1_Witness ==
    /\ Built
    /\ res.status = "failed"
    /\ res.origin = "step"
    /\ res.message = "Unexpected error during pipeline execution"
    /\ res.invoked[Len(res.invoked)].exc = "RuntimeError"

\* C2 as stated: on an input that conforms to the input schema, build
\* succeeds exactly when every step succeeds and the value the last step
\* returned is an instance of output_model itself.
C2_Original ==
    (res.op = "build" /\ BuiltInput.exc = NoExc) =>
        (res.status = "success" <=>
            /\ EveryStepSucceeded
            /\ FinalValue.kind = "model"
            /\ FinalValue.schema = output_model)

\* C2 amended: on an input that conforms to the input schema, build succeeds
\* exactly when every step succeeds and the value the last step returned is
\* a schema instance whose dumped fields construct output_model; the result
\* is then the dump of that reconstruction. An instance of another schema of
\* a compatible shape succeeds; a value that is no schema instance does not.
C2_SuccessIffReconstructs ==
    (res.op = "build" /\ BuiltInput.exc = NoExc) =>
        /\ res.status = "success" <=>
              /\ EveryStepSucceeded
              /\ FinalValue.kind = "model"
              /\ Construct(output_model, FinalValue.fields).exc = NoExc
        /\ res.status = "success" =>
              res.result = DictVal(Construct(output_model, FinalValue.fields).val.fields)

\* A build that succeeded although its last step returned an instance of a
\* schema other than output_model.
C2_Witness ==
    /\ res.op = "build"
    /\ res.status = "success"
    /\ list_functions # << >>
    /\ FinalValue.kind = "model"
    /\ FinalValue.schema # output_model

\* C3 as stated: a definition that holds a step and was built by
\* functions() / modules() calls alone has the input schema of its first
\* step and the output schema of its last step.
C3_InferredFromFirstAndLast ==
    list_functions # << >> =>
        /\ input_model = list_functions[1].inS
        /\ output_model = list_functions[Len(list_functions)].outS

\* The step is a functions() or modules() call.
AppendCall == res'.op \in {"functions", "modules"}

Streaming == res.op = "stream"

\* C5 as stated: every stream ends with the End event, whatever happens in
\* it.
C5_EndsWithEnd ==
    Streaming =>
        /\ res.events # << >>
        /\ res.events[Len(res.events)] = End

StatusAt(i) == res.events[i].status

\* C6: a module-style definition of N module steps whose stream ran to its
\* end (the input was constructed, no hook and no run raised) yields 3N+1
\* events: for each step in order start, completed, end, and last End.
C6_ThreeEventsPerStep ==
    ( /\ Streaming
      /\ sse
      /\ \A k \in DOMAIN list_functions : list_functions[k].kind = "mod"
      /\ res.raised = NoExc ) =>
        LET N == Len(list_functions)
        IN  /\ Len(res.events) = 3 * N + 1
            /\ \A k \in 1..N :
                  /\ StatusAt(3 * k - 2) = "onProgressStartMessage"
                  /\ StatusAt(3 * k - 1) = "onFunctionCompleted"
                  /\ StatusAt(3 * k) = "onProgressEndMessage"
                  /\ res.invoked[k].step = k
            /\ res.events[3 * N + 1] = End

\* A stream over two modules that ran to its end.
C6_Witness ==
    /\ Streaming
    /\ sse
    /\ Len(list_functions) = 2
    /\ \A k \in DOMAIN list_functions : list_functions[k].kind = "mod"
    /\ res.raised = NoExc
    /\ Len(res.events) = 7

\* C7 as stated: on a definition without steps build never succeeds and the
\* stream never completes with the End event alone.
C7_EmptyDefinitionFails ==
    list_functions = << >> =>
        /\ res.op \in {"build", "abuild"} => res.status # "success"
        /\ Streaming => ~(res.raised = NoExc /\ res.events = <<End>>)

C9_InvalidInput ==
    (Built /\ BuiltInput.exc # NoExc) =>
        /\ res.status = "failed"
        /\ res.result = NoneVal
        /\ res.message = "Input data validation error"
        /\ res.invoked = << >>

\* A build of a definition with steps on a mapping whose x is not a number.
C9_Witness ==
    /\ Built
    /\ list_functions # << >>
    /\ input_model = "A"
    /\ res.inp = DictVal([f \in {"x"} |-> NotANumber])
    /\ res.message = "Input data validation error"

\* The message build owes to a fault of class e raised by a step.
StepFaultMessage(e) ==
    IF e = "TypeError" THEN "Type error during pipeline execution"
    ELSE IF e \in {"ValueError", "ValidationError"}
    THEN "Value error during pipeline execution"
    ELSE "Unexpected error during pipeline execution"

\* C10: when a step raises during build / abuild, the result is failed with
\* no result, and the message names the class of the fault: Type error for a
\* TypeError, Value error for a ValueError, Unexpected error for any other.
C10_StepFaultMessage ==
    (Built /\ res.origin = "step") =>
        /\ res.status = "failed"
        /\ res.result = NoneVal
        /\ res.message = StepFaultMessage(res.invoked[Len(res.invoked)].exc)

\* An abuild that a step's ValueError ended.
C10_Witness ==
    /\ res.op = "abuild"
    /\ res.origin = "step"
    /\ res.invoked[Len(res.invoked)].exc = "ValueError"
    /\ res.message = "Value error during pipeline execution"

\* The step variant a definition of this mode is to hold.
ModeVariant == IF sse THEN "mod" ELSE "fn"

\* C11 as stated: after builder calls that all returned normally, every step
\* of the definition is of the variant of its mode: function steps in a
\* plain-step definition, module steps in a module-style one.
C11_SingleVariant ==
    \A k \in DOMAIN list_functions : list_functions[k].kind = ModeVariant

\* The operations that compile, execute or snapshot the definition.
ReadingOps ==
    {"to_function", "to_afunction", "call", "build", "abuild", "arun",
     "stream", "save_to_str"}

\* C12: compilation, execution and snapshot only read the definition: a
\* to_function, to_afunction, call of a compiled unit, build, abuild, arun,
\* stream or save_to_str leaves name, id, mode, both schemas and the list of
\* steps as they were, whatever the input and also when it fails.
C12_ReadOnly ==
    [][res'.op \in ReadingOps =>
          /\ name' = name
          /\ id' = id
          /\ sse' = sse
          /\ input_model' = input_model
          /\ output_model' = output_model
          /\ list_functions' = list_functions]_vars

\* A stream over two module steps that an exception ended after the first
\* step had run.
C12_Witness ==
    /\ Streaming
    /\ res.raised # NoExc
    /\ Len(list_functions) = 2
    /\ Len(res.invoked) >= 1
    /\ res.invoked[1].exc = NoExc

\* What invocation t returns when it runs alone on its input.
Alone(t) ==
    IF tasks[t].op = "abuild" THEN abuild(tasks[t].inp) ELSE arun(tasks[t].inp)

\* C13: invocations of abuild and arun in flight together on one definition
\* are independent, however their steps interleave: an invocation that is
\* done has returned (or raised) exactly what it returns when run alone on
\* its input; and within an invocation the steps run one after the other:
\* while it awaits step k, the steps 1 .. k-1 have been called in this
\* order, each on what the step before it returned, and have returned.
C13_Independent ==
    \A t \in DOMAIN tasks :
        /\ tasks[t].pc = "done" => tasks[t].out = Alone(t)
        /\ tasks[t].pc = "await" =>
              /\ Len(tasks[t].invoked) = tasks[t].k - 1
              /\ \A i \in DOMAIN tasks[t].invoked :
                    /\ tasks[t].invoked[i].step = i
                    /\ tasks[t].invoked[i].exc = NoExc
                    /\ i > 1 => tasks[t].invoked[i].arg = tasks[t].invoked[i - 1].ret
              /\ tasks[t].k > 1 =>
                    tasks[t].data = tasks[t].invoked[tasks[t].k - 1].ret

\* Two invocations on different inputs whose runs overlapped (the second
\* began while the first was suspended in a step), both done with different
\* results, over a definition of two steps.
C13_Witness ==
    /\ Len(list_functions) = 2
    /\ tasks[1].pc = "done"
    /\ tasks[2].pc = "done"
    /\ tasks[1].met
    /\ tasks[2].met
    /\ tasks[1].inp # tasks[2].inp
    /\ tasks[1].invoked # << >>
    /\ tasks[2].invoked # << >>
    /\ tasks[1].out # tasks[2].out

\* The three fields of the result of build / abuild.
Envelope3(r) == <<r.status, r.result, r.message>>

\* C14: abuild mirrors build. On every definition and every input, the
\* status, result and message abuild returns are those build returns (the
\* steps of the model behave alike in their blocking and their
\* suspend-capable form).
C14_AbuildMirrorsBuild ==
    /\ res.op = "abuild" => Envelope3(res) = Envelope3(build(res.inp))
    /\ res.op = "build" => Envelope3(res) = Envelope3(abuild(res.inp))

\* An abuild that succeeded over two steps, and so does build.
C14_Witness ==
    /\ res.op = "abuild"
    /\ res.status = "success"
    /\ Len(list_functions) = 2
    /\ Len(res.invoked) = 2
    /\ build(res.inp).status = "success"

\* What a call of a compiled unit gave: the exception or the value, and
\* the step calls made.
Gave(r) == <<r.exc, r.val, r.invoked>>

C16_RoundTrip ==
    [][/\ res'.op = "save_to_str" => res'.raised = NoExc
       /\ (res'.op = "load_from_str" /\ res'.raised = NoExc) =>
             /\ defn' = defn
             /\ \A d \in UnitInputs :
                   /\ Gave(to_function(d))' = Gave(to_function(d))
                   /\ Gave(to_afunction(d))' = Gave(to_afunction(d))]_vars

\* C17 as stated: functions([]) and modules([]) are no-ops in every state
\* the builder can be in: the call returns and leaves name, id, mode, both
\* schemas and the list of steps as they were.
C17_EmptyAppendNoOp ==
    [][(FunctionsCall(<< >>) \/ ModulesCall(<< >>)) =>
          /\ res'.raised = NoExc
          /\ name' = name
          /\ id' = id
          /\ sse' = sse
          /\ input_model' = input_model
          /\ output_model' = output_model
          /\ list_functions' = list_functions]_vars

\* The events of the last stream that report a step as no module.
InvalidStepEvents ==
    {i \in DOMAIN res.events :
        res.events[i].status = "Exception" /\ res.events[i] # NotActivated}

\* The steps that are no module classes.
InvalidSteps == {k \in DOMAIN list_functions : list_functions[k].kind # "mod"}

\* C18 as stated: a step that is no module is not fatal to the stream. When
\* the input of a module-style definition converts and the first step is no
\* module, the stream yields an Exception event for it, raises nothing, and
\* ends with the End event.
C18_InvalidStepNonFatal ==
    ( /\ Streaming
      /\ sse
      /\ Coerce(input_model, res.inp).exc = NoExc
      /\ 1 \in InvalidSteps ) =>
        /\ res.raised = NoExc
        /\ Cardinality(InvalidStepEvents) >= 1
        /\ res.events[Len(res.events)] = End

\* The steps the loop of the last stream came to, when no module raised: all
\* of them when the stream ran to its end, else the ones that ran and the
\* one at which it ended.
StepsEnumerated ==
    IF res.raised = NoExc THEN Len(list_functions) ELSE Len(res.invoked) + 1

\* C19 as stated: the stream of a plain-step definition (one that holds
\* function steps) whose input converts yields the not-activated event
\* first and once, and then goes on through every step of the definition in
\* order.
C19_NotActivatedThenEnumerates ==
    ( /\ Streaming
      /\ ~sse
      /\ Coerce(input_model, res.inp).exc = NoExc
      /\ InvalidSteps = DOMAIN list_functions ) =>
        /\ res.events # << >>
        /\ res.events[1] = NotActivated
        /\ Cardinality({i \in DOMAIN res.events : res.events[i] = NotActivated}) = 1
        /\ StepsEnumerated = Len(list_functions)

\* The last call ran a compiled unit on an input instance: build and abuild
\* (blocking and suspend-capable unit) and arun of a plain-step definition.
RanUnit ==
    \/ Built /\ BuiltInput.exc = NoExc
    \/ res.op = "arun" /\ ~sse /\ Coerce(input_model, res.inp).exc = NoExc

\* The instance the unit was given.
UnitInput ==
    IF Built THEN BuiltInput.val ELSE Coerce(input_model, res.inp).val

\* What the last step returned (the unit's input when there is no step).
LastValue ==
    IF res.invoked = << >> THEN UnitInput
    ELSE res.invoked[Len(res.invoked)].ret

\* C20: a compiled unit in which no step raises calls every step once, in
\* the order of registration, each on what the step before it returned (the
\* first on the unit's input). When the last value is a schema instance the
\* unit returns an instance of output_model itself made of the dumped fields
\* of that value, else it returns the value as it is. Built over
\* [addOne, double] with schemas of shape {x: int}, the mapping {x: 1} gives
\* success, {x: 4} and 'Pipeline built successfully.'.
C20_ThreadsEveryStep ==
    /\ (RanUnit /\ res.origin # "step") =>
          /\ Len(res.invoked) = Len(list_functions)
          /\ \A i \in DOMAIN res.invoked :
                /\ res.invoked[i].step = i
                /\ res.invoked[i].arg =
                      IF i = 1 THEN UnitInput ELSE res.invoked[i - 1].ret
                /\ res.invoked[i].ret =
                      CallBlocking(list_functions[i], res.invoked[i].arg).val
    /\ (RanUnit /\ res.op = "arun" /\ res.raised = NoExc) =>
          IF LastValue.kind = "model"
          THEN /\ res.value.kind = "model"
               /\ res.value.schema = output_model
               /\ res.value.fields = [f \in Fields(output_model) |-> LastValue.fields[f]]
          ELSE res.value = LastValue
    /\ ( /\ Built
         /\ list_functions = <<addOne, double>>
         /\ input_model = "A"
         /\ output_model \in {"A", "B"}
         /\ res.inp = DictVal([f \in {"x"} |-> IntV(1)]) ) =>
          /\ res.status = "success"
          /\ res.result = DictVal([f \in {"x"} |-> IntV(4)])
          /\ res.message = "Pipeline built successfully."

\* The build of [addOne, double] on {x: 1} that gave {x: 4}.
C20_Witness ==
    /\ res.op = "build"
    /\ list_functions = <<addOne, double>>
    /\ res.inp = DictVal([f \in {"x"} |-> IntV(1)])
    /\ Len(res.invoked) = 2
    /\ res.invoked[2].arg.fields["x"] = IntV(2)
    /\ res.status = "success"
    /\ res.result = DictVal([f \in {"x"} |-> IntV(4)])

\* The place in the events of the last stream where those of the i-th step
\* that ran begin: after the not-activated event, if there is one, and three
\* events for each step before.
EventsBefore(i) == (IF sse THEN 0 ELSE 1) + 3 * (i - 1)

\* C21: the payloads of a stream follow the chain. For every step that ran,
\* the start event carries the data the step was given: the converted input
\* for the first step, else what the step before returned. The completed
\* and the end event carry what the step returned. A plain mapping returned
\* by run is an instance of the step's declared output schema by the time
\* it is emitted and handed to the next step.
C21_PayloadFollowsChain ==
    Streaming =>
        \A i \in DOMAIN res.invoked :
            LET c == res.invoked[i]
                b == EventsBefore(i)
            IN  /\ c.step = i
                /\ c.arg = IF i = 1 THEN Coerce(input_model, res.inp).val
                           ELSE res.invoked[i - 1].ret
                /\ Len(res.events) >= b + 1
                /\ res.events[b + 1].status = "onProgressStartMessage"
                /\ res.events[b + 1].data = Serialize(c.arg)
                /\ c.exc = NoExc =>
                      /\ Len(res.events) >= b + 2
                      /\ res.events[b + 2].status = "onFunctionCompleted"
                      /\ res.events[b + 2].data = Serialize(c.ret)
                      /\ ModuleBody(list_functions[i], c.arg).val.kind = "dict" =>
                            /\ c.ret.kind = "model"
                            /\ c.ret.schema = list_functions[i].outS
                /\ Len(res.events) >= b + 3 =>
                      /\ res.events[b + 3].status = "onProgressEndMessage"
                      /\ res.events[b + 3].data = Serialize(c.ret)

\* A stream over two modules that ran to its end, the first of which
\* returned a plain mapping: the second was given an instance.
C21_Witness ==
    /\ Streaming
    /\ sse
    /\ Len(res.invoked) = 2
    /\ res.raised = NoExc
    /\ ModuleBody(list_functions[1], res.invoked[1].arg).val.kind = "dict"
    /\ res.invoked[2].arg.kind = "model"
    /\ res.events[4].data = Serialize(res.invoked[2].arg)
    /\ res.events[5].data # res.events[4].data

\* The first step that is no module class, or one past the last step.
FirstInvalid ==
    IF InvalidSteps = {} THEN Len(list_functions) + 1
    ELSE CHOOSE k \in InvalidSteps : \A j \in InvalidSteps : k <= j

C23_FailFast ==
    (res.op \in {"build", "abuild", "arun"} /\ res.origin = "step") =>
        LET n == Len(res.invoked)
        IN  /\ n >= 1
            /\ n <= Len(list_functions)
            /\ res.invoked[n].exc # NoExc
            /\ \A i \in 1..n :
                  /\ res.invoked[i].step = i
                  /\ i < n => res.invoked[i].exc = NoExc

\* An abuild over two steps whose first step raised: the second was not
\* called.
C23_Witness ==
    /\ res.op = "abuild"
    /\ res.origin = "step"
    /\ Len(list_functions) = 2
    /\ list_functions[1].beh = "faulty"
    /\ Len(res.invoked) = 1
    /\ res.status = "failed"

\* C24: a compiled unit is bound to the live definition. A call that
\* returns has run the steps the definition holds when it is called, all of
\* them and in their order, and a schema instance it returns is an instance
\* of the output schema the definition has then, whatever the definition
\* held when the unit was compiled.
C24_BoundToLiveDefinition ==
    (res.op = "call" /\ res.raised = NoExc) =>
        /\ Len(res.invoked) = Len(list_functions)
        /\ \A i \in DOMAIN res.invoked :
              /\ res.invoked[i].step = i
              /\ res.invoked[i].ret =
                    CallBlocking(list_functions[i], res.invoked[i].arg).val
        /\ res.value.kind = "model" => res.value.schema = output_model

\* A unit compiled while the definition had no step and no output schema,
\* called after two steps were appended and the output schema was set to one
\* that is not the last step's: it ran both steps and returned an instance of
\* that schema.
C24_Witness ==
    /\ res.op = "call"
    /\ res.raised = NoExc
    /\ res.unit.annotations.return = None
    /\ Len(list_functions) = 2
    /\ Len(res.invoked) = 2
    /\ res.value.kind = "model"
    /\ res.value.schema = output_model
    /\ output_model # list_functions[2].outS

====
